---- MODULE Spec2Model ----
(***************************************************************************)
(* Project_Planner: the board/task manager (project_board_base.py), the    *)
(* team registry (team_base.py) and the user registry (user_base.py).      *)
(*                                                                         *)
(* A Python dict is a sequence of entries [key, val] in insertion order.   *)
(* A JSON document on disk is the sequence of <<key, value>> members that  *)
(* json.dump writes.  uuid.uuid4() is the next value of a counter, and     *)
(* datetime.now() reads a clock that only moves forward.                   *)
(***************************************************************************)
EXTENDS Integers, Sequences, FiniteSets, TLC

VARIABLES
    boards,      \* ProjectBoardBase.boards
    boardsDoc,   \* db/boards.json
    teams,       \* TeamBase.teams
    teamsDoc,    \* db/teams.json
    teamUsers,   \* TeamBase.users, loaded once by TeamBase.__init__
    users,       \* UserBase.users
    usersDoc,    \* db/users.json
    uuidCount,   \* number of uuid4() values handed out
    clock,       \* datetime.now()
    request,     \* the request of the last call
    response     \* what the last call returned

boardVars == <<boards, boardsDoc>>
teamVars == <<teams, teamsDoc, teamUsers>>
userVars == <<users, usersDoc>>
vars == <<boards, boardsDoc, teams, teamsDoc, teamUsers, users,
          usersDoc, uuidCount, clock, request, response>>

-----------------------------------------------------------------------------
(* Bounds of the model *)

MaxBoards == 2
MaxTasks == 2
MaxTeams == 2
MaxUsers == 2
MaxClock == 1

(* Limits written in the code *)

MaxNameLen == 64
MaxDescriptionLen == 128
MaxTeamUsers == 50

-----------------------------------------------------------------------------
(* Request values *)

LongName == "nnnnnnnnnnnnnnnnnnnnnnnnnnnnnnnnnnnnnnnnnnnnnnnnnnnnnnnnnnnnnnnnn"
LongDescription == "ddddddddddddddddddddddddddddddddddddddddddddddddddddddddddddddddddddddddddddddddddddddddddddddddddddddddddddddddddddddddddddddddd"

TeamIds == {"t1", "t2"}
StatusValues == {"IN_PROGRESS", "COMPLETE", "DONE"}

BoardRequest(name, description, team_id, creation_time) ==
    [op |-> "create_board", name |-> name, description |-> description,
     team_id |-> team_id, creation_time |-> creation_time]

(* the last request has no creation_time *)
BoardRequests ==
    {BoardRequest("Alpha", "d", "t1", "c0"), BoardRequest("Beta", "d", "t1", "c0"),
     BoardRequest("Alpha", "d", "t2", "c0"), BoardRequest(LongName, "d", "t1", "c0"),
     BoardRequest("Beta", LongDescription, "t2", "c0"),
     [op |-> "create_board", name |-> "Alpha", description |-> "d", team_id |-> "t1"]}

TaskRequest(title, description, user_id, creation_time, board_id) ==
    [op |-> "add_task", title |-> title, description |-> description,
     user_id |-> user_id, creation_time |-> creation_time, board_id |-> board_id]

(* the last request has no board_id *)
TaskRequests(board_ids) ==
    {TaskRequest(title, "d", "u1", "c0", b) : title \in {"Task1", "Task2"}, b \in board_ids}
    \cup {TaskRequest(LongName, "d", "u1", "c0", 0),
          TaskRequest("Task1", LongDescription, "u1", "c0", 0),
          [op |-> "add_task", title |-> "Task1", description |-> "d",
           user_id |-> "u1", creation_time |-> "c0"]}

(* requests with an id (0 is the id of nothing), and one without *)
IdRequests(op, ids) ==
    {[op |-> op, id |-> i] : i \in ids \cup {0}} \cup {[op |-> op]}

(* the last request has no status *)
StatusRequests(task_ids) ==
    {[op |-> "update_task_status", id |-> t, status |-> status] :
        t \in task_ids \cup {0}, status \in StatusValues}
    \cup {[op |-> "update_task_status", id |-> 0]}

-----------------------------------------------------------------------------
(* dict *)

Keys(d) == {d[i].key : i \in 1..Len(d)}

Get(d, k) == d[CHOOSE i \in 1..Len(d) : d[i].key = k].val

Put(d, k, v) ==
    IF k \in Keys(d)
    THEN [i \in 1..Len(d) |-> IF d[i].key = k THEN [key |-> k, val |-> v] ELSE d[i]]
    ELSE Append(d, [key |-> k, val |-> v])

(* dict.update(other): the keys of other overwrite or extend those of rec *)
Update(rec, other) ==
    [f \in DOMAIN rec \cup DOMAIN other |->
        IF f \in DOMAIN other THEN other[f] ELSE rec[f]]

(* json.dump of a dict: one member per entry, in insertion order *)
Dump(d) == [i \in 1..Len(d) |-> <<d[i].key, d[i].val>>]

(* json.load of an object: members in document order, a repeated key keeps
   its first place and takes the last value *)
Load(doc) ==
    LET names == [i \in 1..Len(doc) |-> doc[i][1]]
        firsts == SelectSeq([i \in 1..Len(doc) |-> i],
                            LAMBDA i : \A j \in 1..(i - 1) : names[j] # names[i])
        last(k) == LET at == {i \in 1..Len(doc) : names[i] = k}
                   IN CHOOSE i \in at : \A j \in at : j <= i
    IN [n \in 1..Len(firsts) |->
           [key |-> names[firsts[n]], val |-> doc[last(names[firsts[n]])][2]]]

(* json.dumps of the value a handler returns *)
Ok(body) == [kind |-> "ok", body |-> body]
Error(message) == [kind |-> "error", error |-> message]

(* an exception that leaves the handler: the caller gets no response *)
Raise(exception) == [kind |-> "raise", error |-> exception]

(* data[field] raises KeyError when the request has no such field *)
Has(data, fields) == fields \subseteq DOMAIN data

-----------------------------------------------------------------------------
(* ProjectBoardBase *)

NewBoard(name, description, team_id, creation_time) ==
    [name |-> name, description |-> description, team_id |-> team_id,
     creation_time |-> creation_time, status |-> "OPEN", tasks |-> <<>>]

NewTask(task_id, title, description, user_id, creation_time) ==
    [id |-> task_id, title |-> title, description |-> description,
     user_id |-> user_id, creation_time |-> creation_time, status |-> "OPEN"]

(* BoardNameTaken with the team comparison left out *)
BoardNameTaken_AnyTeam(bs, name, team_id) ==
    \E i \in 1..Len(bs) : bs[i].val.name = name

BoardNameTaken(bs, name, team_id) ==
    \E i \in 1..Len(bs) : bs[i].val.name = name /\ bs[i].val.team_id = team_id

(* TitleTaken comparing the wrong field of the stored task *)
TitleTaken_WrongField(board, title) ==
    \E j \in 1..Len(board.tasks) : board.tasks[j].description = title

TitleTaken(board, title) ==
    \E j \in 1..Len(board.tasks) : board.tasks[j].title = title

(* AcceptsTasks that only asks for a status to be there *)
AcceptsTasks_AnyStatus(board) == board.status \in {"OPEN", "CLOSED"}

AcceptsTasks(board) == board.status = "OPEN"

(* HasIncompleteTask with all() where the code has any() *)
HasIncompleteTask_All(board) ==
    \A j \in 1..Len(board.tasks) : board.tasks[j].status # "COMPLETE"

HasIncompleteTask(board) ==
    \E j \in 1..Len(board.tasks) : board.tasks[j].status # "COMPLETE"

(* Closed without the end_time stamp *)
Closed_NoEndTime(board, now) == Update(board, [status |-> "CLOSED"])

Closed(board, now) == Update(board, [status |-> "CLOSED", end_time |-> now])

(* WithTask putting the new task first *)
WithTask_First(board, task) == [board EXCEPT !.tasks = <<task>> \o @]

(* board["tasks"].append(task) *)
WithTask(board, task) == [board EXCEPT !.tasks = Append(@, task)]

Positions(bs) ==
    UNION {{<<i, j>> : j \in 1..Len(bs[i].val.tasks)} : i \in 1..Len(bs)}

TaskPositions(bs, task_id) ==
    {p \in Positions(bs) : bs[p[1]].val.tasks[p[2]].id = task_id}

(* the first task the two nested loops meet *)
FirstTask(bs, task_id) ==
    CHOOSE p \in TaskPositions(bs, task_id) :
        \A q \in TaskPositions(bs, task_id) :
            p[1] < q[1] \/ (p[1] = q[1] /\ p[2] <= q[2])

(* SetTaskStatus writing the status of the board that holds the task *)
SetTaskStatus_OfBoard(bs, p, status) ==
    [bs EXCEPT ![p[1]].val.status = status]

(* SetTaskStatus without the test of the task's id: every task of the
   board gets the status *)
SetTaskStatus_WholeBoard(bs, p, status) ==
    [bs EXCEPT ![p[1]].val.tasks =
        [j \in 1..Len(@) |-> [@[j] EXCEPT !.status = status]]]

SetTaskStatus(bs, p, status) ==
    [bs EXCEPT ![p[1]].val.tasks[p[2]].status = status]

TaskIds(bs) == {bs[p[1]].val.tasks[p[2]].id : p \in Positions(bs)}

(* save_boards writing the boards last-created first *)
save_boards_Reversed(bs) == Dump([i \in 1..Len(bs) |-> bs[Len(bs) + 1 - i]])

save_boards(bs) == Dump(bs)

load_boards == Load(boardsDoc)

BoardInit ==
    /\ boardsDoc' = boardsDoc
    /\ boards' = load_boards
    /\ request' = [op |-> "ProjectBoardBase"]
    /\ response' = Ok("constructed")
    /\ UNCHANGED <<teamVars, userVars, uuidCount, clock>>

create_board ==
    \E req \in BoardRequests :
        LET name == req.name
            description == req.description
            team_id == req.team_id
            creation_time == req.creation_time
        IN
        /\ Len(boards) < MaxBoards
        /\ request' = req
        /\ IF ~Has(req, {"name", "description", "team_id", "creation_time"})
           THEN /\ response' = Error("Failed to create board: KeyError")
                /\ UNCHANGED <<boards, boardsDoc, uuidCount>>
           ELSE IF Len(name) > MaxNameLen
           THEN /\ response' = Error("name exceeds 64 characters")
                /\ UNCHANGED <<boards, boardsDoc, uuidCount>>
           ELSE IF Len(description) > MaxDescriptionLen
           THEN /\ response' = Error("description exceeds 128 characters")
                /\ UNCHANGED <<boards, boardsDoc, uuidCount>>
           ELSE IF BoardNameTaken(boards, name, team_id)
           THEN /\ response' = Error("board name must be unique for a team")
                /\ UNCHANGED <<boards, boardsDoc, uuidCount>>
           ELSE LET board_id == uuidCount + 1 IN
                /\ uuidCount' = board_id
                /\ boards' = Put(boards, board_id,
                                 NewBoard(name, description, team_id, creation_time))
                /\ boardsDoc' = save_boards(boards')
                /\ response' = Ok([id |-> board_id])
        /\ UNCHANGED <<teamVars, userVars, clock>>

close_board ==
    \E req \in IdRequests("close_board", Keys(boards)), now \in clock..MaxClock :
        LET board_id == req.id IN
        /\ request' = req
        /\ IF ~Has(req, {"id"})
           THEN /\ response' = Raise("KeyError")
                /\ UNCHANGED <<boards, boardsDoc, clock>>
           ELSE IF board_id \notin Keys(boards)
           THEN /\ response' = Error("board not found")
                /\ UNCHANGED <<boards, boardsDoc, clock>>
           ELSE IF HasIncompleteTask(Get(boards, board_id))
           THEN /\ response' = Error("cannot close board with incomplete tasks")
                /\ UNCHANGED <<boards, boardsDoc, clock>>
           ELSE /\ clock' = now
                /\ boards' = Put(boards, board_id, Closed(Get(boards, board_id), now))
                /\ boardsDoc' = save_boards(boards')
                /\ response' = Ok([status |-> "success"])
        /\ UNCHANGED <<teamVars, userVars, uuidCount>>

add_task ==
    \E req \in TaskRequests(Keys(boards) \cup {0}) :
        LET title == req.title
            description == req.description
            user_id == req.user_id
            creation_time == req.creation_time
            board_id == req.board_id
        IN
        /\ Cardinality(Positions(boards)) < MaxTasks
        /\ request' = req
        /\ IF ~Has(req, {"title", "description", "user_id", "creation_time", "board_id"})
           THEN /\ response' = Error("Failed to add task: KeyError")
                /\ UNCHANGED <<boards, boardsDoc, uuidCount>>
           ELSE IF Len(title) > MaxNameLen
           THEN /\ response' = Error("title exceeds 64 characters")
                /\ UNCHANGED <<boards, boardsDoc, uuidCount>>
           ELSE IF Len(description) > MaxDescriptionLen
           THEN /\ response' = Error("description exceeds 128 characters")
                /\ UNCHANGED <<boards, boardsDoc, uuidCount>>
           ELSE IF board_id \notin Keys(boards)
           THEN /\ response' = Error("board not found")
                /\ UNCHANGED <<boards, boardsDoc, uuidCount>>
           ELSE IF ~AcceptsTasks(Get(boards, board_id))
           THEN /\ response' = Error("can only add tasks to an OPEN board")
                /\ UNCHANGED <<boards, boardsDoc, uuidCount>>
           ELSE IF TitleTaken(Get(boards, board_id), title)
           THEN /\ response' = Error("task title must be unique for a board")
                /\ UNCHANGED <<boards, boardsDoc, uuidCount>>
           ELSE LET task_id == uuidCount + 1
                    board == Get(boards, board_id)
                    task == NewTask(task_id, title, description, user_id, creation_time)
                IN
                /\ uuidCount' = task_id
                /\ boards' = Put(boards, board_id, WithTask(board, task))
                /\ boardsDoc' = save_boards(boards')
                /\ response' = Ok([id |-> task_id])
        /\ UNCHANGED <<teamVars, userVars, clock>>

update_task_status ==
    \E req \in StatusRequests(TaskIds(boards)) :
        LET task_id == req.id
            status == req.status
        IN
        /\ request' = req
        /\ IF ~Has(req, {"id", "status"})
           THEN /\ response' = Raise("KeyError")
                /\ UNCHANGED <<boards, boardsDoc>>
           ELSE IF TaskPositions(boards, task_id) # {}
           THEN /\ boards' = SetTaskStatus(boards, FirstTask(boards, task_id), status)
                /\ boardsDoc' = save_boards(boards')
                /\ response' = Ok([status |-> "success"])
           ELSE /\ response' = Error("task not found")
                /\ UNCHANGED <<boards, boardsDoc>>
        /\ UNCHANGED <<teamVars, userVars, uuidCount, clock>>

(* ListedBoards without the status filter *)
ListedBoards_AnyStatus(bs, team_id) ==
    LET open == SelectSeq(bs, LAMBDA e : e.val.team_id = team_id)
    IN [i \in 1..Len(open) |-> [id |-> open[i].key, name |-> open[i].val.name]]

ListedBoards(bs, team_id) ==
    LET open == SelectSeq(bs, LAMBDA e : e.val.team_id = team_id /\ e.val.status = "OPEN")
    IN [i \in 1..Len(open) |-> [id |-> open[i].key, name |-> open[i].val.name]]

list_boards ==
    \E req \in {[op |-> "list_boards", id |-> t] : t \in TeamIds}
                   \cup {[op |-> "list_boards"]} :
        LET team_id == req.id IN
        /\ request' = req
        /\ IF ~Has(req, {"id"})
           THEN response' = Raise("KeyError")
           ELSE response' = Ok(ListedBoards(boards, team_id))
        /\ UNCHANGED <<boardVars, teamVars, userVars, uuidCount, clock>>

TaskLines(task) ==
    << <<"Task Title", task.title>>, <<"Description", task.description>>,
       <<"Assigned User", task.user_id>>, <<"Creation Time", task.creation_time>>,
       <<"Status", task.status>>, <<>> >>

RECURSIVE TasksText(_)
TasksText(tasks) ==
    IF tasks = <<>> THEN <<>> ELSE TaskLines(Head(tasks)) \o TasksText(Tail(tasks))

BoardText(board) ==
    << <<"Board Name", board.name>>, <<"Description", board.description>>,
       <<"Creation Time", board.creation_time>>, <<"Status", board.status>>,
       <<"Tasks">> >> \o TasksText(board.tasks)

(* the text goes to out/<board_id>.txt, outside the board store; the call's
   result keeps what was written next to the path it returns *)
export_board ==
    \E req \in IdRequests("export_board", Keys(boards)) :
        LET board_id == req.id IN
        /\ request' = req
        /\ IF ~Has(req, {"id"})
           THEN response' = Raise("KeyError")
           ELSE IF board_id \notin Keys(boards)
           THEN response' = Error("board not found")
           ELSE response' = [kind |-> "ok", body |-> [out_file |-> board_id],
                             written |-> BoardText(Get(boards, board_id))]
        /\ UNCHANGED <<boardVars, teamVars, userVars, uuidCount, clock>>

BoardNext ==
    \/ BoardInit
    \/ create_board
    \/ close_board
    \/ add_task
    \/ update_task_status
    \/ list_boards
    \/ export_board

-----------------------------------------------------------------------------
(* TeamBase *)

Range(a, b) == [i \in 1..(b - a + 1) |-> a + i - 1]

Members(xs) == {xs[i] : i \in 1..Len(xs)}

(* list(set(xs)): the distinct elements of xs, in an order the language does
   not fix; the model lets it be the ascending or the descending one.  The
   ids of the model are the numbers 0..uuidCount. *)
ListOfSet(xs) ==
    LET S == Members(xs)
        up == [i \in 1..(uuidCount + 1) |-> i - 1]
        down == [i \in 1..(uuidCount + 1) |-> uuidCount + 1 - i]
    IN {SelectSeq(up, LAMBDA x : x \in S), SelectSeq(down, LAMBDA x : x \in S)}

TeamRequest(name, description, admin) ==
    [op |-> "create_team", name |-> name, description |-> description, admin |-> admin]

(* the last request has no admin *)
TeamRequests ==
    {TeamRequest("T1", "d", 1), TeamRequest("T2", "d", 1),
     TeamRequest(LongName, "d", 1), TeamRequest("T2", LongDescription, 1),
     [op |-> "create_team", name |-> "T1", description |-> "d"]}

(* the "team" object of an update_team request: any subset of the fields of
   a team; 0 is the id of no user *)
TeamDetails ==
    {[name |-> "T1"], [name |-> "T2"], [name |-> LongName],
     [description |-> LongDescription],
     [description |-> "e", admin |-> 2,
      users |-> <<0>> \o Range(2, MaxTeamUsers + 1)]}

(* the "users" list of an add or remove request *)
UserBatches ==
    {<<1>>, <<1, 1>>, <<1, 0>>, Range(2, MaxTeamUsers + 1)}

(* requests that name a team, one that names no team (id 0), and one with
   a field missing *)
UpdateRequests(team_ids) ==
    {[op |-> "update_team", id |-> t, team |-> d] : t \in team_ids, d \in TeamDetails}
    \cup {[op |-> "update_team", id |-> 0, team |-> [name |-> "T1"]],
          [op |-> "update_team", id |-> 0]}

AddRequests(team_ids) ==
    {[op |-> "add_users_to_team", id |-> t, users |-> b] : t \in team_ids, b \in UserBatches}
    \cup {[op |-> "add_users_to_team", id |-> 0, users |-> <<1>>],
          [op |-> "add_users_to_team", id |-> 0]}

RemoveRequests(team_ids) ==
    {[op |-> "remove_users_from_team", id |-> t, users |-> b] :
        t \in team_ids, b \in UserBatches \ {<<1, 1>>}}
    \cup {[op |-> "remove_users_from_team", id |-> 0, users |-> <<1>>],
          [op |-> "remove_users_from_team", id |-> 0]}

NewTeam(name, description, creation_time, admin) ==
    [name |-> name, description |-> description, creation_time |-> creation_time,
     admin |-> admin, users |-> <<>>]

TeamNameTaken(ts, name) ==
    \E i \in 1..Len(ts) : ts[i].val.name = name

(* TeamNameTakenByOther without the tid != team_id filter *)
TeamNameTakenByOther_OrSelf(ts, name, team_id) ==
    \E i \in 1..Len(ts) : ts[i].val.name = name

TeamNameTakenByOther(ts, name, team_id) ==
    \E i \in 1..Len(ts) : ts[i].key # team_id /\ ts[i].val.name = name

InvalidUsers(user_ids, known) ==
    LET ids == Keys(known) IN SelectSeq(user_ids, LAMBDA u : u \notin ids)

ExceedsLimit(team, user_ids) ==
    Len(team.users) + Len(user_ids) > MaxTeamUsers

(* AddUsers extending the list before it checks the limit *)
AddUsers_ExtendFirst(team, user_ids, known) ==
    LET invalid_users == InvalidUsers(user_ids, known) IN
    IF invalid_users # <<>>
    THEN {[team |-> team, response |-> Error(<<"Invalid user IDs", invalid_users>>)]}
    ELSE IF ExceedsLimit(team, user_ids)
    THEN {[team |-> [team EXCEPT !.users = @ \o user_ids],
           response |-> Error("adding these users exceeds the maximum of 50 users")]}
    ELSE {[team |-> [team EXCEPT !.users = order],
           response |-> Ok([status |-> "success"])] :
             order \in ListOfSet(team.users \o user_ids)}

(* add_users_to_team once the team is found: the outcomes, one for each
   order list(set(...)) may give *)
AddUsers(team, user_ids, known) ==
    LET invalid_users == InvalidUsers(user_ids, known) IN
    IF invalid_users # <<>>
    THEN {[team |-> team, response |-> Error(<<"Invalid user IDs", invalid_users>>)]}
    ELSE IF ExceedsLimit(team, user_ids)
    THEN {[team |-> team,
           response |-> Error("adding these users exceeds the maximum of 50 users")]}
    ELSE {[team |-> [team EXCEPT !.users = order],
           response |-> Ok([status |-> "success"])] :
             order \in ListOfSet(team.users \o user_ids)}

RemoveUsers(team, user_ids) ==
    LET gone == Members(user_ids) IN
    [team EXCEPT !.users = SelectSeq(@, LAMBDA u : u \notin gone)]

save_teams(ts) == Dump(ts)

load_teams == Load(teamsDoc)

load_users == Load(usersDoc)

TeamInit ==
    /\ teams' = load_teams
    /\ teamUsers' = load_users
    /\ request' = [op |-> "TeamBase"]
    /\ response' = Ok("constructed")
    /\ UNCHANGED <<teamsDoc, boardVars, userVars, uuidCount, clock>>

create_team ==
    \E req \in TeamRequests, now \in clock..MaxClock :
        LET name == req.name
            description == req.description
            admin == req.admin
        IN
        /\ Len(teams) < MaxTeams
        /\ request' = req
        /\ IF ~Has(req, {"name", "description", "admin"})
           THEN /\ response' = Error("Failed to create team: KeyError")
                /\ UNCHANGED <<teams, teamsDoc, uuidCount, clock>>
           ELSE IF Len(name) > MaxNameLen
           THEN /\ response' = Error("name exceeds 64 characters")
                /\ UNCHANGED <<teams, teamsDoc, uuidCount, clock>>
           ELSE IF Len(description) > MaxDescriptionLen
           THEN /\ response' = Error("description exceeds 128 characters")
                /\ UNCHANGED <<teams, teamsDoc, uuidCount, clock>>
           ELSE IF TeamNameTaken(teams, name)
           THEN /\ response' = Error("team name must be unique")
                /\ UNCHANGED <<teams, teamsDoc, uuidCount, clock>>
           ELSE LET team_id == uuidCount + 1 IN
                /\ uuidCount' = team_id
                /\ clock' = now
                /\ teams' = Put(teams, team_id, NewTeam(name, description, now, admin))
                /\ teamsDoc' = save_teams(teams')
                /\ response' = Ok([id |-> team_id])
        /\ UNCHANGED <<teamUsers, boardVars, userVars>>

update_team ==
    \E req \in UpdateRequests(Keys(teams)) :
        LET team_id == req.id
            team_details == req.team
        IN
        /\ request' = req
        /\ IF ~Has(req, {"id", "team"})
           THEN /\ response' = Raise("KeyError")
                /\ UNCHANGED <<teams, teamsDoc>>
           ELSE IF team_id \notin Keys(teams)
           THEN /\ response' = Error("team not found")
                /\ UNCHANGED <<teams, teamsDoc>>
           ELSE IF "name" \in DOMAIN team_details /\ Len(team_details.name) > MaxNameLen
           THEN /\ response' = Error("name exceeds 64 characters")
                /\ UNCHANGED <<teams, teamsDoc>>
           ELSE IF /\ "description" \in DOMAIN team_details
                   /\ Len(team_details.description) > MaxDescriptionLen
           THEN /\ response' = Error("description exceeds 128 characters")
                /\ UNCHANGED <<teams, teamsDoc>>
           ELSE IF /\ "name" \in DOMAIN team_details
                   /\ TeamNameTakenByOther(teams, team_details.name, team_id)
           THEN /\ response' = Error("team name must be unique")
                /\ UNCHANGED <<teams, teamsDoc>>
           ELSE /\ teams' = Put(teams, team_id, Update(Get(teams, team_id), team_details))
                /\ teamsDoc' = save_teams(teams')
                /\ response' = Ok([status |-> "success"])
        /\ UNCHANGED <<teamUsers, boardVars, userVars, uuidCount, clock>>

add_users_to_team ==
    \E req \in AddRequests(Keys(teams)) :
        LET team_id == req.id
            user_ids == req.users
        IN
        /\ request' = req
        /\ IF ~Has(req, {"id", "users"})
           THEN /\ response' = Raise("KeyError")
                /\ UNCHANGED <<teams, teamsDoc>>
           ELSE IF team_id \notin Keys(teams)
           THEN /\ response' = Error("team not found")
                /\ UNCHANGED <<teams, teamsDoc>>
           ELSE \E done \in AddUsers(Get(teams, team_id), user_ids, teamUsers) :
                /\ response' = done.response
                /\ teams' = Put(teams, team_id, done.team)
                /\ teamsDoc' = IF done.response.kind = "ok"
                                THEN save_teams(teams') ELSE teamsDoc
        /\ UNCHANGED <<teamUsers, boardVars, userVars, uuidCount, clock>>

remove_users_from_team ==
    \E req \in RemoveRequests(Keys(teams)) :
        LET team_id == req.id
            user_ids == req.users
        IN
        /\ request' = req
        /\ IF ~Has(req, {"id", "users"})
           THEN /\ response' = Raise("KeyError")
                /\ UNCHANGED <<teams, teamsDoc>>
           ELSE IF team_id \notin Keys(teams)
           THEN /\ response' = Error("team not found")
                /\ UNCHANGED <<teams, teamsDoc>>
           ELSE /\ teams' = Put(teams, team_id, RemoveUsers(Get(teams, team_id), user_ids))
                /\ teamsDoc' = save_teams(teams')
                /\ response' = Ok([status |-> "success"])
        /\ UNCHANGED <<teamUsers, boardVars, userVars, uuidCount, clock>>

(* the join of the member ids with self.users *)
ListedTeamUsers(team, known) ==
    [i \in 1..Len(team.users) |->
        [id |-> team.users[i], name |-> Get(known, team.users[i]).name,
         display_name |-> Get(known, team.users[i]).display_name]]

(* self.users[user_id] raises KeyError for a member that self.users lacks *)
list_team_users ==
    \E req \in IdRequests("list_team_users", Keys(teams)) :
        LET team_id == req.id IN
        /\ request' = req
        /\ IF ~Has(req, {"id"})
           THEN response' = Raise("KeyError")
           ELSE IF team_id \notin Keys(teams)
           THEN response' = Error("team not found")
           ELSE IF ~(Members(Get(teams, team_id).users) \subseteq Keys(teamUsers))
           THEN response' = Raise("KeyError")
           ELSE response' = Ok(ListedTeamUsers(Get(teams, team_id), teamUsers))
        /\ UNCHANGED <<teamVars, boardVars, userVars, uuidCount, clock>>

TeamNext ==
    \/ TeamInit
    \/ create_team
    \/ update_team
    \/ add_users_to_team
    \/ remove_users_from_team
    \/ list_team_users

-----------------------------------------------------------------------------
(* UserBase *)

UserRequest(name, display_name) ==
    [op |-> "create_user", name |-> name, display_name |-> display_name]

(* the last request has no display_name *)
UserRequests ==
    {UserRequest("u1", "U1"), UserRequest("u2", "U2"),
     UserRequest(LongName, "U1"), UserRequest("u2", LongName),
     [op |-> "create_user", name |-> "u1"]}

(* the "user" object of an update_user request *)
UserDetails ==
    {[display_name |-> "New"], [name |-> "u3"],
     [name |-> "u1", display_name |-> "New"],
     [display_name |-> LongName], [description |-> "about"]}

(* requests that name a user, one that names no user (id 0) and one with
   no "user" field *)
UserUpdateRequests(user_ids) ==
    {[op |-> "update_user", id |-> u, user |-> d] : u \in user_ids, d \in UserDetails}
    \cup {[op |-> "update_user", id |-> 0, user |-> [display_name |-> "New"]],
          [op |-> "update_user", id |-> 0]}

NewUser(name, display_name, creation_time) ==
    [name |-> name, display_name |-> display_name, creation_time |-> creation_time]

UserNameTaken(us, name) ==
    \E i \in 1..Len(us) : us[i].val.name = name

NameGiven(user_details) == "name" \in DOMAIN user_details

(* DisplayNameTooLong with the limit of a description *)
DisplayNameTooLong_DescriptionLimit(user_details) ==
    /\ "display_name" \in DOMAIN user_details
    /\ Len(user_details.display_name) > MaxDescriptionLen

DisplayNameTooLong(user_details) ==
    /\ "display_name" \in DOMAIN user_details
    /\ Len(user_details.display_name) > MaxNameLen

save_users(us) == Dump(us)

UserInit ==
    /\ users' = load_users
    /\ request' = [op |-> "UserBase"]
    /\ response' = Ok("constructed")
    /\ UNCHANGED <<usersDoc, boardVars, teamVars, uuidCount, clock>>

create_user ==
    \E req \in UserRequests, now \in clock..MaxClock :
        /\ Len(users) < MaxUsers
        /\ request' = req
        /\ IF ~Has(req, {"name", "display_name"})
           THEN /\ response' = Error("Failed to create user: KeyError")
                /\ UNCHANGED <<users, usersDoc, uuidCount, clock>>
           ELSE IF Len(req.name) > MaxNameLen
           THEN /\ response' = Error("name exceeds 64 characters")
                /\ UNCHANGED <<users, usersDoc, uuidCount, clock>>
           ELSE IF Len(req.display_name) > MaxNameLen
           THEN /\ response' = Error("display_name exceeds 64 characters")
                /\ UNCHANGED <<users, usersDoc, uuidCount, clock>>
           ELSE IF UserNameTaken(users, req.name)
           THEN /\ response' = Error("user name must be unique")
                /\ UNCHANGED <<users, usersDoc, uuidCount, clock>>
           ELSE LET user_id == uuidCount + 1 IN
                /\ uuidCount' = user_id
                /\ clock' = now
                /\ users' = Put(users, user_id, NewUser(req.name, req.display_name, now))
                /\ usersDoc' = save_users(users')
                /\ response' = Ok([id |-> user_id])
        /\ UNCHANGED <<boardVars, teamVars>>

ListedUsers(us) ==
    [i \in 1..Len(us) |->
        [name |-> us[i].val.name, display_name |-> us[i].val.display_name,
         creation_time |-> us[i].val.creation_time]]

list_users ==
    /\ request' = [op |-> "list_users"]
    /\ response' = Ok(ListedUsers(users))
    /\ UNCHANGED <<userVars, boardVars, teamVars, uuidCount, clock>>

DescribedUser(user) ==
    [name |-> user.name,
     description |-> IF "description" \in DOMAIN user THEN user.description ELSE "",
     creation_time |-> user.creation_time]

describe_user ==
    \E req \in IdRequests("describe_user", Keys(users)) :
        /\ request' = req
        /\ IF ~Has(req, {"id"})
           THEN response' = Raise("KeyError")
           ELSE IF req.id \notin Keys(users)
           THEN response' = Error("user not found")
           ELSE response' = Ok(DescribedUser(Get(users, req.id)))
        /\ UNCHANGED <<userVars, boardVars, teamVars, uuidCount, clock>>

update_user ==
    \E req \in UserUpdateRequests(Keys(users)) :
        /\ request' = req
        /\ IF ~Has(req, {"id", "user"})
           THEN /\ response' = Raise("KeyError")
                /\ UNCHANGED <<users, usersDoc>>
           ELSE IF req.id \notin Keys(users)
           THEN /\ response' = Error("user not found")
                /\ UNCHANGED <<users, usersDoc>>
           ELSE IF NameGiven(req.user)
           THEN /\ response' = Error("user name cannot be updated")
                /\ UNCHANGED <<users, usersDoc>>
           ELSE IF DisplayNameTooLong(req.user)
           THEN /\ response' = Error("display_name exceeds 64 characters")
                /\ UNCHANGED <<users, usersDoc>>
           ELSE /\ users' = Put(users, req.id, Update(Get(users, req.id), req.user))
                /\ usersDoc' = save_users(users')
                /\ response' = Ok([status |-> "success"])
        /\ UNCHANGED <<boardVars, teamVars, uuidCount, clock>>

(* the two placeholder teams, each stamped with its own datetime.now() *)
UserTeams(now1, now2) ==
    << [name |-> "team1", description |-> "description1", creation_time |-> now1],
       [name |-> "team2", description |-> "description2", creation_time |-> now2] >>

get_user_teams ==
    \E req \in IdRequests("get_user_teams", Keys(users)) :
        /\ request' = req
        /\ IF ~Has(req, {"id"})
           THEN /\ response' = Raise("KeyError")
                /\ UNCHANGED clock
           ELSE IF req.id \notin Keys(users)
           THEN /\ response' = Error("user not found")
                /\ UNCHANGED clock
           ELSE \E now1 \in clock..MaxClock : \E now2 \in now1..MaxClock :
                /\ clock' = now2
                /\ response' = Ok(UserTeams(now1, now2))
        /\ UNCHANGED <<userVars, boardVars, teamVars, uuidCount>>

UserNext ==
    \/ UserInit
    \/ create_user
    \/ list_users
    \/ describe_user
    \/ update_user
    \/ get_user_teams

-----------------------------------------------------------------------------
(* The state after construction on a fresh installation: the three
   documents are created empty. *)

Init ==
    /\ boardsDoc = Dump(<<>>)
    /\ boards = Load(boardsDoc)
    /\ teamsDoc = Dump(<<>>)
    /\ teams = Load(teamsDoc)
    /\ usersDoc = Dump(<<>>)
    /\ users = Load(usersDoc)
    /\ teamUsers = Load(usersDoc)
    /\ uuidCount = 0
    /\ clock = 0
    /\ request = [op |-> "none"]
    /\ response = Ok("constructed")

Next == BoardNext

Spec == Init /\ [][Next]_vars

(* The state after construction on an installation whose user document
   already holds NumSeedUsers users, ids 1..NumSeedUsers. *)

NumSeedUsers == MaxTeamUsers + 1

SeedUser(i) ==
    [name |-> "user" \o ToString(i), display_name |-> "User", creation_time |-> 0]

SeedUsers == [i \in 1..NumSeedUsers |-> [key |-> i, val |-> SeedUser(i)]]

TeamSpecInit ==
    /\ boardsDoc = Dump(<<>>)
    /\ boards = Load(boardsDoc)
    /\ teamsDoc = Dump(<<>>)
    /\ teams = Load(teamsDoc)
    /\ usersDoc = Dump(SeedUsers)
    /\ users = Load(usersDoc)
    /\ teamUsers = Load(usersDoc)
    /\ uuidCount = NumSeedUsers
    /\ clock = 0
    /\ request = [op |-> "none"]
    /\ response = Ok("constructed")

TeamSpec == TeamSpecInit /\ [][TeamNext]_vars

UserSpec == Init /\ [][UserNext]_vars

(* The team registry beside a user registry, on an installation whose user
   document holds one user: the calls of the team registry that keep every
   member a known user (update_team can store any list, see TeamSpec), and
   update_user of the user registry. *)

RosterInit ==
    /\ boardsDoc = Dump(<<>>)
    /\ boards = Load(boardsDoc)
    /\ teamsDoc = Dump(<<>>)
    /\ teams = Load(teamsDoc)
    /\ usersDoc = Dump(SubSeq(SeedUsers, 1, 1))
    /\ users = Load(usersDoc)
    /\ teamUsers = Load(usersDoc)
    /\ uuidCount = 1
    /\ clock = 0
    /\ request = [op |-> "none"]
    /\ response = Ok("constructed")

RosterNext ==
    \/ TeamInit
    \/ create_team
    \/ add_users_to_team
    \/ remove_users_from_team
    \/ list_team_users
    \/ update_user

RosterSpec == RosterInit /\ [][RosterNext]_vars

-----------------------------------------------------------------------------
(* Properties of the board manager *)

BoardOf(bs, k) == Get(bs, k)

AllComplete(tasks) == \A j \in 1..Len(tasks) : tasks[j].status = "COMPLETE"

TitlesOf(board) == {board.tasks[j].title : j \in 1..Len(board.tasks)}

(* C1: a board is created OPEN, its status is OPEN or CLOSED, no board
   disappears, and a board that is CLOSED before a call is CLOSED after it *)
C1_StatusOpenThenClosed ==
    [][ /\ Keys(boards) \subseteq Keys(boards')
        /\ \A k \in Keys(boards') :
              /\ BoardOf(boards', k).status \in {"OPEN", "CLOSED"}
              /\ k \notin Keys(boards) => BoardOf(boards', k).status = "OPEN"
              /\ (k \in Keys(boards) /\ BoardOf(boards, k).status = "CLOSED")
                    => BoardOf(boards', k).status = "CLOSED" ]_vars

(* a task of a CLOSED board has just been given a status other than COMPLETE *)
C1_Witness ==
    /\ request.op = "update_task_status"
    /\ response.kind = "ok"
    /\ \E p \in TaskPositions(boards, request.id) :
          /\ boards[p[1]].val.status = "CLOSED"
          /\ boards[p[1]].val.tasks[p[2]].status = "DONE"

(* C2: close_board on an existing board succeeds exactly when every task of
   the board is COMPLETE (none at all included) and then the board is CLOSED;
   otherwise it returns an error and the boards and their document are as
   before *)
C2_CloseIffAllComplete ==
    [][ (request'.op = "close_board" /\ Has(request', {"id"})
                                      /\ request'.id \in Keys(boards)) =>
          LET board == BoardOf(boards, request'.id) IN
          /\ (response'.kind = "ok") <=> AllComplete(board.tasks)
          /\ response'.kind = "ok" =>
                /\ BoardOf(boards', request'.id).status = "CLOSED"
                /\ "end_time" \in DOMAIN BoardOf(boards', request'.id)
          /\ response'.kind # "ok" =>
                /\ response' = Error("cannot close board with incomplete tasks")
                /\ boards' = boards
                /\ boardsDoc' = boardsDoc ]_vars

(* close_board has just been refused on a board with one COMPLETE task and
   one that is not *)
C2_Witness ==
    /\ request.op = "close_board"
    /\ response = Error("cannot close board with incomplete tasks")
    /\ LET board == BoardOf(boards, request.id) IN
          /\ board.status = "OPEN"
          /\ \E i, j \in 1..Len(board.tasks) :
                board.tasks[i].status = "COMPLETE" /\ board.tasks[j].status # "COMPLETE"

(* C3: add_task naming a CLOSED board returns an error and changes nothing,
   and no call makes the task sequence of a CLOSED board longer *)
C3_ClosedBoardTakesNoTask ==
    [][ /\ (/\ request'.op = "add_task"
             /\ Has(request', {"board_id"})
             /\ request'.board_id \in Keys(boards)
             /\ BoardOf(boards, request'.board_id).status = "CLOSED")
              => (response'.kind = "error" /\ boards' = boards /\ boardsDoc' = boardsDoc)
        /\ \A k \in Keys(boards) :
              BoardOf(boards, k).status = "CLOSED"
                => Len(BoardOf(boards', k).tasks) = Len(BoardOf(boards, k).tasks) ]_vars

(* add_task has just been refused because its board is CLOSED *)
C3_Witness ==
    /\ request.op = "add_task"
    /\ response = Error("can only add tasks to an OPEN board")
    /\ BoardOf(boards, request.board_id).status = "CLOSED"

(* C4: no two boards share team_id and name; create_board with a pair some
   board (open or closed) holds returns an error and creates nothing;
   create_board with a pair no board holds, and fields within the length
   limits, adds one board *)
C4_BoardNameUniquePerTeam ==
    [][ /\ \A i, j \in 1..Len(boards') :
              (/\ boards'[i].val.name = boards'[j].val.name
               /\ boards'[i].val.team_id = boards'[j].val.team_id) => i = j
        /\ (request'.op = "create_board" /\ Has(request', {"creation_time"})) =>
              LET held == \E i \in 1..Len(boards) :
                              /\ boards[i].val.name = request'.name
                              /\ boards[i].val.team_id = request'.team_id
                  fits == /\ Len(request'.name) <= MaxNameLen
                          /\ Len(request'.description) <= MaxDescriptionLen
              IN /\ held => (response'.kind = "error" /\ boards' = boards)
                 /\ (fits /\ ~held) =>
                       /\ response'.kind = "ok"
                       /\ Len(boards') = Len(boards) + 1
                       /\ boards'[Len(boards')].val.name = request'.name
                       /\ boards'[Len(boards')].val.team_id = request'.team_id ]_vars

(* create_board has just added a board whose name a board of another team,
   already CLOSED, holds *)
C4_Witness ==
    /\ request.op = "create_board"
    /\ response.kind = "ok"
    /\ \E i \in 1..Len(boards) :
          /\ boards[i].key # response.body.id
          /\ boards[i].val.name = request.name
          /\ boards[i].val.team_id # request.team_id
          /\ boards[i].val.status = "CLOSED"

(* C5: no two tasks of a board share a title; add_task with a title the
   board holds returns an error and appends nothing; add_task with a title
   the OPEN board does not hold, and fields within the length limits,
   appends one task, whatever the other boards hold *)
C5_TaskTitleUniquePerBoard ==
    [][ /\ \A k \in Keys(boards') :
              LET tasks == BoardOf(boards', k).tasks IN
              \A i, j \in 1..Len(tasks) : tasks[i].title = tasks[j].title => i = j
        /\ (request'.op = "add_task" /\ Has(request', {"board_id"})
                                     /\ request'.board_id \in Keys(boards)) =>
              LET board == BoardOf(boards, request'.board_id)
                  after == BoardOf(boards', request'.board_id)
                  fits == /\ Len(request'.title) <= MaxNameLen
                          /\ Len(request'.description) <= MaxDescriptionLen
              IN /\ request'.title \in TitlesOf(board)
                       => (response'.kind = "error" /\ boards' = boards)
                 /\ (fits /\ board.status = "OPEN" /\ request'.title \notin TitlesOf(board)) =>
                       /\ response'.kind = "ok"
                       /\ Len(after.tasks) = Len(board.tasks) + 1
                       /\ after.tasks[Len(after.tasks)].title = request'.title ]_vars

(* add_task has just appended a task whose title a task of another board holds *)
C5_Witness ==
    /\ request.op = "add_task"
    /\ response.kind = "ok"
    /\ \E k \in Keys(boards) :
          k # request.board_id /\ request.title \in TitlesOf(BoardOf(boards, k))

TaskIdsOf(board) == [j \in 1..Len(board.tasks) |-> board.tasks[j].id]

IsPrefix(s, t) == Len(s) <= Len(t) /\ \A j \in 1..Len(s) : s[j] = t[j]

At(bs, k) == CHOOSE i \in 1..Len(bs) : bs[i].key = k

TaskStatuses == {"OPEN", "IN_PROGRESS", "COMPLETE"}

(* C12: the board document holds what the manager holds in memory: loading
   it gives the same boards in the same order, with the same fields and the
   same tasks, after every call, whether it succeeded or not *)
C12_DocumentMirrorsBoards ==
    /\ Load(boardsDoc) = boards
    /\ Len(boardsDoc) = Len(boards)
    /\ \A i \in 1..Len(boards) :
          boardsDoc[i][1] = boards[i].key /\ boardsDoc[i][2] = boards[i].val

(* a manager has just been constructed from a document with two boards, one
   of them CLOSED with a task *)
C12_Witness ==
    /\ request.op = "ProjectBoardBase"
    /\ Len(boards) = 2
    /\ \E i \in 1..Len(boards) :
          boards[i].val.status = "CLOSED" /\ boards[i].val.tasks # <<>>

(* C13: list_boards returns the id and name of the boards of the team that
   are OPEN, each once, in the order the boards were created, and of no
   other board *)
C13_ListsOpenBoardsOfTeam ==
    [][ (request'.op = "list_boards" /\ Has(request', {"id"})) =>
          /\ response'.kind = "ok"
          /\ LET out == response'.body IN
             /\ \A n \in 1..Len(out) :
                   /\ DOMAIN out[n] = {"id", "name"}
                   /\ out[n].id \in Keys(boards)
                   /\ BoardOf(boards, out[n].id).name = out[n].name
                   /\ BoardOf(boards, out[n].id).team_id = request'.id
                   /\ BoardOf(boards, out[n].id).status = "OPEN"
             /\ \A i \in 1..Len(boards) :
                   (boards[i].val.team_id = request'.id /\ boards[i].val.status = "OPEN")
                      => \E n \in 1..Len(out) : out[n].id = boards[i].key
             /\ \A m, n \in 1..Len(out) :
                   m < n => At(boards, out[m].id) < At(boards, out[n].id) ]_vars

(* list_boards has just returned one board for a team whose first board is
   CLOSED *)
C13_Witness ==
    /\ request.op = "list_boards"
    /\ response.kind = "ok"
    /\ Len(response.body) = 1
    /\ \E i, j \in 1..Len(boards) :
          /\ i < j
          /\ boards[i].val.team_id = request.id /\ boards[i].val.status = "CLOSED"
          /\ boards[j].val.team_id = request.id /\ boards[j].val.status = "OPEN"

(* C14: every call returns a response; none lets an exception reach the
   caller *)
C14_NoRaisedFault == response.kind \in {"ok", "error"}

(* C15: the status of every task is OPEN, IN_PROGRESS or COMPLETE *)
C15_TaskStatusInRange ==
    \A p \in Positions(boards) : boards[p[1]].val.tasks[p[2]].status \in TaskStatuses

(* C17: update_task_status with the id of a task gives that task the status
   of the request and changes nothing else of any board, open or closed;
   with an id no task has it returns "task not found" and the boards and
   their document are as before; no two tasks have the same id *)
C17_UpdateChangesOneTask ==
    [][ /\ \A p, q \in Positions(boards') :
              boards'[p[1]].val.tasks[p[2]].id = boards'[q[1]].val.tasks[q[2]].id => p = q
        /\ (request'.op = "update_task_status" /\ Has(request', {"id", "status"})) =>
              IF \E p \in Positions(boards) : boards[p[1]].val.tasks[p[2]].id = request'.id
              THEN /\ response'.kind = "ok"
                   /\ Len(boards') = Len(boards)
                   /\ \A i \in 1..Len(boards) :
                         /\ boards'[i].key = boards[i].key
                         /\ DOMAIN boards'[i].val = DOMAIN boards[i].val
                         /\ \A f \in DOMAIN boards[i].val \ {"tasks"} :
                               boards'[i].val[f] = boards[i].val[f]
                         /\ Len(boards'[i].val.tasks) = Len(boards[i].val.tasks)
                   /\ \A p \in Positions(boards) :
                         LET old == boards[p[1]].val.tasks[p[2]]
                             new == boards'[p[1]].val.tasks[p[2]]
                         IN IF old.id = request'.id
                            THEN new = [old EXCEPT !.status = request'.status]
                            ELSE new = old
              ELSE /\ response' = Error("task not found")
                   /\ boards' = boards
                   /\ boardsDoc' = boardsDoc ]_vars

(* update_task_status has just changed one of the two tasks of a CLOSED
   board *)
C17_Witness ==
    /\ request.op = "update_task_status"
    /\ response.kind = "ok"
    /\ \E i \in 1..Len(boards) :
          /\ boards[i].val.status = "CLOSED"
          /\ Len(boards[i].val.tasks) = 2
          /\ \E j, k \in 1..2 :
                /\ boards[i].val.tasks[j].id = request.id
                /\ boards[i].val.tasks[j].status = request.status
                /\ boards[i].val.tasks[k].status # request.status

(* C18: a board has an end_time exactly when its status is CLOSED *)
C18_EndTimeIffClosed ==
    \A i \in 1..Len(boards) :
        ("end_time" \in DOMAIN boards[i].val) <=> (boards[i].val.status = "CLOSED")

(* there is a CLOSED board and an OPEN one *)
C18_Witness ==
    \E i, j \in 1..Len(boards) :
        boards[i].val.status = "CLOSED" /\ boards[j].val.status = "OPEN"

(* C19: the ids of the tasks a board holds before a call are the first ids
   it holds after the call, in the same order, and add_task, when it
   succeeds, puts the new task last *)
C19_TasksAppendOnly ==
    [][ /\ \A k \in Keys(boards) :
              /\ k \in Keys(boards')
              /\ IsPrefix(TaskIdsOf(BoardOf(boards, k)), TaskIdsOf(BoardOf(boards', k)))
        /\ (request'.op = "add_task" /\ response'.kind = "ok") =>
              LET before == TaskIdsOf(BoardOf(boards, request'.board_id))
                  after == TaskIdsOf(BoardOf(boards', request'.board_id))
              IN after = Append(before, response'.body.id) ]_vars

(* add_task has just put a second task on a board *)
C19_Witness ==
    /\ request.op = "add_task"
    /\ response.kind = "ok"
    /\ LET ids == TaskIdsOf(BoardOf(boards, request.board_id)) IN
          Len(ids) = 2 /\ ids[2] = response.body.id

(* C20: every task of a CLOSED board is COMPLETE *)
C20_ClosedBoardAllComplete ==
    \A i \in 1..Len(boards) :
        boards[i].val.status = "CLOSED" => AllComplete(boards[i].val.tasks)

(* C21: a board that has an end_time before a call has the same end_time
   after it, whatever the call, close_board on that board included *)
C21_EndTimeNeverModified ==
    [][ \A k \in Keys(boards) :
          "end_time" \in DOMAIN BoardOf(boards, k) =>
              /\ k \in Keys(boards')
              /\ "end_time" \in DOMAIN BoardOf(boards', k)
              /\ BoardOf(boards', k).end_time = BoardOf(boards, k).end_time ]_vars

-----------------------------------------------------------------------------
(* Properties of the team registry *)

TeamOf(ts, k) == Get(ts, k)

NamesOf(ts) == {ts[i].val.name : i \in 1..Len(ts)}

(* C6: every team has at most 50 members *)
C6_AtMostFiftyMembers ==
    \A i \in 1..Len(teams) :
        Cardinality(Members(teams[i].val.users)) <= MaxTeamUsers

(* C7: add_users_to_team returns an error when the team is unknown, when an
   id of the batch is not a known user, or when the list and the batch
   together are longer than 50; whenever it returns an error the teams, the
   member lists included, and the team document are as before *)
C7_AddUsersAllOrNothing ==
    [][ (request'.op = "add_users_to_team" /\ Has(request', {"id", "users"})) =>
          /\ (\/ request'.id \notin Keys(teams)
              \/ \E i \in 1..Len(request'.users) :
                    request'.users[i] \notin Keys(teamUsers)
              \/ Len(TeamOf(teams, request'.id).users) + Len(request'.users)
                    > MaxTeamUsers)
                => response'.kind = "error"
          /\ response'.kind = "error" => (teams' = teams /\ teamsDoc' = teamsDoc) ]_vars

(* a batch of one known user has just been refused by a team of 50 members *)
C7_Witness ==
    /\ request.op = "add_users_to_team"
    /\ response = Error("adding these users exceeds the maximum of 50 users")
    /\ request.users = <<1>>
    /\ Cardinality(Members(TeamOf(teams, request.id).users)) = MaxTeamUsers
    /\ 1 \notin Members(TeamOf(teams, request.id).users)

(* C8: update_team leaves the admin and the member list of its team as they
   were *)
C8_UpdateKeepsAdminAndMembers ==
    [][ (request'.op = "update_team" /\ Has(request', {"id", "team"})
                                      /\ request'.id \in Keys(teams)) =>
          /\ TeamOf(teams', request'.id).admin = TeamOf(teams, request'.id).admin
          /\ TeamOf(teams', request'.id).users = TeamOf(teams, request'.id).users ]_vars

(* C9: an id that a call makes a member of a team is the id of a user of the
   user registry *)
C9_NewMemberIsAUser ==
    [][ \A k \in Keys(teams') :
          \A m \in Members(TeamOf(teams', k).users) :
              (k \in Keys(teams) => m \notin Members(TeamOf(teams, k).users))
                => m \in Keys(users') ]_vars

(* C10: no two teams share a name; create_team with a name some team holds
   returns an error and changes nothing; update_team with a name another
   team holds returns an error and changes nothing; update_team with just
   the name its team holds succeeds and the name stays *)
C10_TeamNameUnique ==
    [][ /\ \A i, j \in 1..Len(teams') :
              teams'[i].val.name = teams'[j].val.name => i = j
        /\ (request'.op = "create_team" /\ request'.name \in NamesOf(teams))
              => (response'.kind = "error" /\ teams' = teams /\ teamsDoc' = teamsDoc)
        /\ (/\ request'.op = "update_team"
             /\ Has(request', {"id", "team"})
             /\ request'.id \in Keys(teams)
             /\ "name" \in DOMAIN request'.team) =>
              LET own == TeamOf(teams, request'.id).name
                  others == {teams[i].val.name : i \in {j \in 1..Len(teams) :
                                                          teams[j].key # request'.id}}
              IN /\ request'.team.name \in others
                       => (response'.kind = "error" /\ teams' = teams /\ teamsDoc' = teamsDoc)
                 /\ request'.team = [name |-> own]
                       => (response'.kind = "ok" /\ TeamOf(teams', request'.id).name = own) ]_vars

(* with both names taken, update_team has just succeeded with the name its
   team holds *)
C10_Witness ==
    /\ Len(teams) = 2
    /\ request.op = "update_team"
    /\ response.kind = "ok"
    /\ request.team = [name |-> TeamOf(teams, request.id).name]

(* C22: add_users_to_team on an existing team, with a batch whose ids are
   all known users, succeeds whenever the members and the batch together
   are at most 50 distinct ids *)
C22_AddSucceedsWithinLimit ==
    [][ (/\ request'.op = "add_users_to_team"
         /\ Has(request', {"id", "users"})
         /\ request'.id \in Keys(teams)
         /\ Members(request'.users) \subseteq Keys(teamUsers)
         /\ Cardinality(Members(TeamOf(teams, request'.id).users)
                          \cup Members(request'.users)) <= MaxTeamUsers)
          => response'.kind = "ok" ]_vars

(* C16: list_team_users on an existing team returns one entry for each
   member, in the order of the member list, with the name and display_name
   the user registry holds for that member at the time of the call *)
C16_ListShowsCurrentUsers ==
    [][ (request'.op = "list_team_users" /\ Has(request', {"id"})
                                          /\ request'.id \in Keys(teams)) =>
          LET members == TeamOf(teams, request'.id).users IN
          /\ response'.kind = "ok"
          /\ Len(response'.body) = Len(members)
          /\ \A i \in 1..Len(members) :
                /\ response'.body[i].id = members[i]
                /\ members[i] \in Keys(users)
                /\ response'.body[i].name = Get(users, members[i]).name
                /\ response'.body[i].display_name
                      = Get(users, members[i]).display_name ]_vars

-----------------------------------------------------------------------------
(* Properties of the user registry *)

UserOf(us, k) == Get(us, k)

(* C11: update_user on an existing user returns an error when the details
   hold a name, and when they hold a display_name longer than 64 characters,
   and then the users and their document are as before; no call changes the
   name of a user *)
C11_UpdateUserKeepsName ==
    [][ /\ (/\ request'.op = "update_user"
             /\ Has(request', {"id", "user"})
             /\ request'.id \in Keys(users)
             /\ \/ "name" \in DOMAIN request'.user
                \/ /\ "display_name" \in DOMAIN request'.user
                   /\ Len(request'.user.display_name) > MaxNameLen)
              => (response'.kind = "error" /\ users' = users /\ usersDoc' = usersDoc)
        /\ \A k \in Keys(users) :
              k \in Keys(users') /\ UserOf(users', k).name = UserOf(users, k).name ]_vars

(* update_user has just refused details that hold another name than the
   user's, next to a display_name it would take *)
C11_Witness ==
    /\ request.op = "update_user"
    /\ response = Error("user name cannot be updated")
    /\ request.user.name # UserOf(users, request.id).name
    /\ "display_name" \in DOMAIN request.user
    /\ UserOf(users, request.id).display_name # request.user.display_name

====
